---- MODULE Spec2Model ----
(***************************************************************************)
(* Model of windowrs (src/src/lib.rs): the Windows iterator over a         *)
(* borrowed slice, which emits sub-slices of a requested size every step   *)
(* elements and keeps the last window even when it is shorter than size.   *)
(*                                                                         *)
(* A slice is a sequence; the Rust slice e[a..b] is SubSeq(e, a+1, b).     *)
(* usize is modelled with WordBits bits.  An arithmetic overflow panics in *)
(* a build with overflow checks and wraps in a build without them; the     *)
(* build is fixed for a whole behaviour by the variable checked.           *)
(***************************************************************************)
EXTENDS Integers, Sequences, FiniteSets

\* ---------------------------------------------------------------- bounds
MaxLen == 6        \* longest source slice
MaxSize == 4       \* largest size / step handed to Windows::new
WordBits == 4      \* width of usize in the model
MaxLenCalls == 2   \* consecutive len() calls that are told apart
MaxIdx == 1        \* largest start / end handed to Window::new directly
MaxPay == 1        \* payloads of directly built windows are 0..MaxPay

Word == 2 ^ WordBits
\* The code never inspects an element (T is only Debug), so the sources are
\* the slices [1, 2, .., L] of distinct elements, as in the crate's tests: a
\* payload then determines the indices it was taken from.
Sources == {[i \in 1 .. L |-> i] : L \in 0 .. MaxLen}

VARIABLES
    status,    \* "unbuilt" before Windows::new, "live", or "panicked"
    checked,   \* TRUE: the build panics on overflow, FALSE: it wraps
    elements,  \* Windows.elements, the remaining view
    size,      \* Windows.size
    step,      \* Windows.step
    start,     \* Windows.start
    ret,       \* the last call and what it returned
    src,       \* the slice handed to Windows::new
    req,       \* the size and step handed to Windows::new
    emitted,   \* the windows returned so far by next and nth, in order
    phase,     \* "fresh": no next/nth yet; "next": only next; "mixed"
    lenCalls,  \* number of len() calls since the last other call
    seek,      \* n when the first next/nth call was nth(n), it returned a
               \* window and only next followed; -1 before any nth; else -2
    win,       \* a Window<V> built with Window::new and transformed since
    wcall      \* the last call on win: its name, closure and receiver

vars == <<status, checked, elements, size, step, start, ret, src, req,
          emitted, phase, lenCalls, seek, win, wcall>>

\* ------------------------------------------------------- usize and slices
Ovf(x) == x < 0 \/ x >= Word
Wrap(x) == x % Word

\* e[a..b]; SliceOk is the bounds check that indexing performs
SliceOk(e, a, b) == a <= b /\ b <= Len(e)
Slice(e, a, b) == SubSeq(e, a + 1, b)

\* ---------------------------------------------------------------- Window
None == [some |-> FALSE, start |-> 0, end |-> 0, value |-> <<>>]
Some(w) == [some |-> TRUE, start |-> w.start, end |-> w.end, value |-> w.value]

\* Window::new asserts start <= end
WindowOk(s, e) == s <= e
Window(s, e, v) == [start |-> s, end |-> e, value |-> v]

\* --------------------------------------------------------------- Windows
Gen(e, sz, st, s) == [elements |-> e, size |-> sz, step |-> st, start |-> s]
self == Gen(elements, size, step, start)

\* outcome of a call: it panicked, or it returned opt and left the
\* generator as g
Panic(g) == [panic |-> TRUE, opt |-> None, g |-> g]
Ok(o, g) == [panic |-> FALSE, opt |-> o, g |-> g]

\* new with the step bound made strict
NewMutStrictStep(sz, st) == sz > 0 /\ st > 0 /\ st < sz
\* the three assertions of Windows::new
NewOk(sz, st) == sz > 0 /\ st > 0 /\ st <= sz

\* len that rounds the tail division down
LenMutFloor(g) ==
    IF g.elements = <<>> THEN 0
    ELSE LET l == IF Len(g.elements) < g.size THEN 0
                  ELSE Len(g.elements) - g.size
         IN  (l \div g.step) + 1
\* Windows::len
len(g) ==
    IF g.elements = <<>> THEN 0
    ELSE LET l == IF Len(g.elements) < g.size THEN 0
                  ELSE Len(g.elements) - g.size
             ndivs == l \div g.step
             rem == IF l % g.step = 0 THEN 0 ELSE 1
         IN  ndivs + rem + 1

\* next with the cursor advanced by size instead of step
NextMutStartBySize(g) ==
    IF g.elements = <<>> THEN Ok(None, g)
    ELSE LET n == Len(g.elements)
             sz == IF g.size > n THEN n ELSE g.size
             end == Wrap(g.start + sz)
         IN  Ok(Some(Window(g.start, end, Slice(g.elements, 0, sz))),
                [g EXCEPT !.start = Wrap(g.start + g.size),
                          !.elements = IF n > sz
                                       THEN Slice(g.elements, g.step, n)
                                       ELSE <<>>])
\* next that keeps stepping through a view no longer than size
NextMutNoExhaust(g) ==
    IF g.elements = <<>> THEN Ok(None, g)
    ELSE LET n == Len(g.elements)
             sz == IF g.size > n THEN n ELSE g.size
             end == Wrap(g.start + sz)
         IN  Ok(Some(Window(g.start, end, Slice(g.elements, 0, sz))),
                [g EXCEPT !.start = Wrap(g.start + g.step),
                          !.elements = IF n > g.step
                                       THEN Slice(g.elements, g.step, n)
                                       ELSE <<>>])
\* next that drops a trailing view shorter than size, as slice::windows does
NextMutDropPartial(g) ==
    IF g.elements = <<>> THEN Ok(None, g)
    ELSE IF Len(g.elements) < g.size
        THEN Ok(None, [g EXCEPT !.elements = <<>>])
    ELSE LET n == Len(g.elements)
             sz == g.size
             end == Wrap(g.start + sz)
         IN  Ok(Some(Window(g.start, end, Slice(g.elements, 0, sz))),
                [g EXCEPT !.start = Wrap(g.start + g.step),
                          !.elements = IF n > sz
                                       THEN Slice(g.elements, g.step, n)
                                       ELSE <<>>])
\* next that takes a whole window even from a shorter view
NextMutNoClamp(g) ==
    IF g.elements = <<>> THEN Ok(None, g)
    ELSE LET n == Len(g.elements)
             end == Wrap(g.start + g.size)
         IN  IF ~SliceOk(g.elements, 0, g.size) THEN Panic(g)
             ELSE Ok(Some(Window(g.start, end, Slice(g.elements, 0, g.size))),
                     [g EXCEPT !.start = Wrap(g.start + g.step),
                               !.elements = IF n > g.size
                                            THEN Slice(g.elements, g.step, n)
                                            ELSE <<>>])
\* Iterator::next
next(g) ==
    IF g.elements = <<>> THEN Ok(None, g)
    ELSE LET n == Len(g.elements)
             sz == IF g.size > n THEN n ELSE g.size
             endRaw == g.start + sz
             end == Wrap(endRaw)
             startRaw == g.start + g.step
             fail == \/ checked /\ Ovf(endRaw)
                     \/ ~SliceOk(g.elements, 0, sz)
                     \/ ~WindowOk(g.start, end)
                     \/ checked /\ Ovf(startRaw)
                     \/ n > sz /\ ~SliceOk(g.elements, g.step, n)
         IN  IF fail THEN Panic(g)
             ELSE Ok(Some(Window(g.start, end, Slice(g.elements, 0, sz))),
                     [g EXCEPT !.start = Wrap(startRaw),
                               !.elements = IF n > sz
                                            THEN Slice(g.elements, g.step, n)
                                            ELSE <<>>])

\* nth that leaves the returned window's first step elements in the view
NthMutKeepsWindow(g, n) ==
    LET pos == Wrap(n * g.step)
        last_ == Wrap(Wrap(len(g) - 1) * g.step)
        m == Len(g.elements)
        sz == IF g.size > m THEN m ELSE g.size
        end == Wrap(pos + sz)
    IN  IF pos > last_
            THEN Ok(None, [g EXCEPT !.elements = <<>>])
        ELSE IF ~SliceOk(g.elements, pos, end)
            THEN Panic(g)
        ELSE Ok(Some(Window(pos, end, Slice(g.elements, pos, end))),
                [g EXCEPT !.elements = Slice(g.elements, pos, m),
                          !.start = pos])
\* Iterator::nth
nth(g, n) ==
    LET posRaw == n * g.step
        pos == Wrap(posRaw)
        lm1Raw == len(g) - 1
        lastRaw == Wrap(lm1Raw) * g.step
        last_ == Wrap(lastRaw)
        m == Len(g.elements)
        sz == IF g.size > m THEN m ELSE g.size
        endRaw == pos + sz
        end == Wrap(endRaw)
        restRaw == pos + g.step
        rest == Wrap(restRaw)
    IN  IF checked /\ (Ovf(posRaw) \/ Ovf(lm1Raw) \/ Ovf(lastRaw))
            THEN Panic(g)
        ELSE IF pos > last_
            THEN Ok(None, [g EXCEPT !.elements = <<>>])
        ELSE IF \/ checked /\ Ovf(endRaw)
                \/ ~SliceOk(g.elements, pos, end)
                \/ ~WindowOk(pos, end)
                \/ checked /\ Ovf(restRaw)
                \/ ~SliceOk(g.elements, rest, m)
            THEN Panic(g)
        ELSE Ok(Some(Window(pos, end, Slice(g.elements, pos, end))),
                [g EXCEPT !.elements = Slice(g.elements, rest, m),
                          !.start = rest])

\* last with the window's end taken as start + size
LastMutEndBySize(g) ==
    IF g.elements = <<>> THEN Ok(None, g)
    ELSE LET s == Wrap(Wrap(len(g) - 1) * g.step)
         IN  Ok(Some(Window(s, s + g.size,
                            Slice(g.elements, s, Len(g.elements)))), g)
\* Iterator::last
last(g) ==
    IF g.elements = <<>> THEN Ok(None, g)
    ELSE LET lm1Raw == len(g) - 1
             sRaw == Wrap(lm1Raw) * g.step
             s == Wrap(sRaw)
             m == Len(g.elements)
         IN  IF \/ checked /\ (Ovf(lm1Raw) \/ Ovf(sRaw))
                \/ ~SliceOk(g.elements, s, m)
                \/ ~WindowOk(s, m)
                 THEN Panic(g)
             ELSE Ok(Some(Window(s, m, Slice(g.elements, s, m))), g)

\* ------------------------------------------------- Window transformations
\* outcome of a call that returns a Window: it panicked, or it returned w
WPanic(w) == [panic |-> TRUE, w |-> w]
WOk(w) == [panic |-> FALSE, w |-> w]

\* Window::new
WindowNew(s, e, v) ==
    IF WindowOk(s, e) THEN WOk(Window(s, e, v)) ELSE WPanic(Window(0, 0, 0))

\* map that collapses the range to its start
MapMutEmptyRange(w, f) == WindowNew(w.start, w.start, f[w.value])
\* Window::map
map(w, f) == WindowNew(w.start, w.end, f[w.value])

\* flat_map that keeps the receiver's range
FlatMapMutKeepsRange(w, f) == WOk(Window(w.start, w.end, f[w.value].value))
\* Window::flat_map
flat_map(w, f) == WOk(f[w.value])

\* ------------------------------------------------------------------ calls
Ret(op, arg, opt, num) == [op |-> op, arg |-> arg, opt |-> opt, num |-> num]
WCall(op, panic, f, before) ==
    [op |-> op, panic |-> panic, f |-> f, before |-> before]

Init ==
    /\ status = "unbuilt"
    /\ checked \in BOOLEAN
    /\ elements = <<>>
    /\ size = 0
    /\ step = 0
    /\ start = 0
    /\ ret = Ret("none", 0, None, 0)
    /\ src = <<>>
    /\ req = [size |-> 0, step |-> 0]
    /\ emitted = <<>>
    /\ phase = "fresh"
    /\ lenCalls = 0
    /\ seek = -1
    /\ win = Window(0, 0, 0)
    /\ wcall = WCall("none", FALSE, <<>>, Window(0, 0, 0))

CallNew ==
    /\ status = "unbuilt"
    /\ \E e \in Sources, sz \in 0 .. MaxSize, st \in 0 .. MaxSize :
        /\ src' = e
        /\ req' = [size |-> sz, step |-> st]
        /\ ret' = Ret("new", 0, None, 0)
        /\ IF NewOk(sz, st)
              THEN /\ status' = "live"
                   /\ elements' = e
                   /\ size' = sz
                   /\ step' = st
                   /\ start' = 0
              ELSE /\ status' = "panicked"
                   /\ UNCHANGED <<elements, size, step, start>>
    /\ UNCHANGED <<checked, emitted, phase, lenCalls, seek, win, wcall>>

\* len that advances the view as it counts
CallLenMutConsumes ==
    /\ status = "live"
    /\ lenCalls < MaxLenCalls
    /\ ret' = Ret("len", 0, None, len(self))
    /\ lenCalls' = lenCalls + 1
    /\ elements' = next(self).g.elements
    /\ UNCHANGED <<status, checked, size, step, start, src, req,
                   emitted, phase, seek, win, wcall>>
\* Windows::len, which takes &self
CallLen ==
    /\ status = "live"
    /\ lenCalls < MaxLenCalls
    /\ ret' = Ret("len", 0, None, len(self))
    /\ lenCalls' = lenCalls + 1
    /\ UNCHANGED <<status, checked, elements, size, step, start, src, req,
                   emitted, phase, seek, win, wcall>>

\* the effect of a call with outcome r on the generator and the history
Apply(op, arg, r, ph) ==
    /\ ret' = Ret(op, arg, r.opt, 0)
    /\ lenCalls' = 0
    /\ phase' = ph
    /\ IF r.panic
          THEN /\ status' = "panicked"
               /\ UNCHANGED <<elements, size, step, start, emitted>>
          ELSE /\ status' = "live"
               /\ elements' = r.g.elements
               /\ size' = r.g.size
               /\ step' = r.g.step
               /\ start' = r.g.start
               /\ emitted' = IF r.opt.some THEN Append(emitted, r.opt)
                             ELSE emitted
    /\ UNCHANGED <<checked, src, req, win, wcall>>

CallNext ==
    /\ status = "live"
    /\ Apply("next", 0, next(self), IF phase = "fresh" THEN "next" ELSE phase)
    /\ UNCHANGED seek

CallNth ==
    /\ status = "live"
    /\ \E n \in 0 .. Word - 1 :
        /\ Apply("nth", n, nth(self, n), "mixed")
        /\ seek' = IF phase = "fresh" /\ ~nth(self, n).panic
                       /\ nth(self, n).opt.some
                    THEN n ELSE -2

\* last that drains the generator it is called on
CallLastMutDrains ==
    /\ status = "live"
    /\ ret' = Ret("last", 0, last(self).opt, 0)
    /\ lenCalls' = 0
    /\ status' = IF last(self).panic THEN "panicked" ELSE "live"
    /\ elements' = <<>>
    /\ UNCHANGED <<checked, size, step, start, src, req,
                   emitted, phase, seek, win, wcall>>
\* last takes self by value and Windows is Clone: the caller's generator,
\* or the clone it keeps, is as it was
CallLast ==
    /\ status = "live"
    /\ ret' = Ret("last", 0, last(self).opt, 0)
    /\ lenCalls' = 0
    /\ status' = IF last(self).panic THEN "panicked" ELSE "live"
    /\ UNCHANGED <<checked, elements, size, step, start, src, req,
                   emitted, phase, seek, win, wcall>>

Next ==
    \/ CallNew
    \/ CallLen
    \/ CallNext
    \/ CallNth
    \/ CallLast

Spec == Init /\ [][Next]_vars

\* ------------------------------------------------------ calls on a Window
GenVars == <<status, checked, elements, size, step, start, ret, src, req,
             emitted, phase, lenCalls, seek>>
PayVals == 0 .. MaxPay
\* the windows a closure handed to flat_map may return
WindowSet == {w \in [start : 0 .. MaxIdx, end : 0 .. MaxIdx, value : PayVals] :
                 WindowOk(w.start, w.end)}

\* the effect of a call with outcome r on the window
WApply(op, f, r) ==
    /\ wcall' = WCall(op, r.panic, f, win)
    /\ win' = IF r.panic THEN win ELSE r.w
    /\ UNCHANGED GenVars

CallWindowNew ==
    /\ wcall.op = "none"
    /\ \E s \in 0 .. MaxIdx, e \in 0 .. MaxIdx, v \in PayVals :
        WApply("new", <<>>, WindowNew(s, e, v))

\* Every window is one that Window::new returns, so the transformations are
\* applied to the window as built.
CallMap ==
    /\ wcall.op = "new" /\ ~wcall.panic
    /\ \E f \in [PayVals -> PayVals] : WApply("map", f, map(win, f))

CallFlatMap ==
    /\ wcall.op = "new" /\ ~wcall.panic
    /\ \E f \in [PayVals -> WindowSet] : WApply("flat_map", f, flat_map(win, f))

WNext ==
    \/ CallWindowNew
    \/ CallMap
    \/ CallFlatMap

WindowSpec == Init /\ [][WNext]_vars

\* ------------------------------------------------- pulling to exhaustion
\* the windows that successive next calls return before the first None
RECURSIVE Pull(_)
Pull(g) ==
    LET r == next(g)
    IN  IF r.panic \/ ~r.opt.some THEN <<>> ELSE <<r.opt>> \o Pull(r.g)

Fresh == Gen(src, size, step, 0)
Built == status = "live" \/ (status = "panicked" /\ ret.op # "new")
\* only next (and the read-only len and last) has been called
NextOnly == Built /\ phase \in {"fresh", "next"}
Ceil(a, b) == (a + b - 1) \div b
Max0(x) == IF x > 0 THEN x ELSE 0
Width(w) == w.end - w.start

\* ----------------------------------------------------------------- claims

\* C1: in every state reached from a fresh generator by next calls, len()
\* is the number of windows that further next calls return before the first
\* None; it is 0 for an empty view and ceil(max(0, remaining - size) / step)
\* + 1 otherwise, and the windows returned so far plus len() are the len()
\* of the fresh generator.
C1_LenIsRemainingCount ==
    NextOnly =>
        /\ status = "live"
        /\ len(self) = Len(Pull(self))
        /\ len(self) = IF elements = <<>> THEN 0
                       ELSE Ceil(Max0(Len(elements) - size), step) + 1
        /\ Len(emitted) + len(self) = len(Fresh)
C1_Witness ==
    /\ NextOnly /\ status = "live" /\ phase = "next"
    /\ Len(emitted) >= 1
    /\ Len(elements) > size
    /\ (Len(elements) - size) % step # 0
    /\ len(self) >= 2

\* C2: pulling a fresh generator with next, every returned window holds the
\* source elements at [start, end) and is between 1 and size long, and every
\* window but the final one is exactly size long.
C2_WindowWidths ==
    NextOnly =>
        /\ status = "live"
        /\ \A k \in 1 .. Len(emitted) :
            /\ 1 <= Width(emitted[k])
            /\ Width(emitted[k]) <= size
            /\ SliceOk(src, emitted[k].start, emitted[k].end)
            /\ emitted[k].value = Slice(src, emitted[k].start, emitted[k].end)
            /\ (k < Len(emitted) \/ elements # <<>>) => Width(emitted[k]) = size
C2_Witness ==
    /\ NextOnly /\ status = "live"
    /\ elements = <<>>
    /\ Len(emitted) >= 2
    /\ Width(emitted[Len(emitted)]) < size

\* C3: the k-th window returned by next on a fresh generator (k from 0)
\* starts at k * step, and start <= end.
C3_StartsByStep ==
    NextOnly =>
        /\ status = "live"
        /\ \A k \in 1 .. Len(emitted) :
            /\ emitted[k].start = (k - 1) * step
            /\ emitted[k].start <= emitted[k].end
C3_Witness ==
    /\ NextOnly /\ status = "live"
    /\ Len(emitted) >= 3
    /\ step >= 2
    /\ step < size

\* C4: once next has exhausted a fresh generator over a non-empty source,
\* the final window ends at the source's length and every source index lies
\* in some returned window.
C4_NoElementDropped ==
    (NextOnly /\ src # <<>> /\ (status = "live" => elements = <<>>)) =>
        /\ status = "live"
        /\ emitted # <<>>
        /\ emitted[Len(emitted)].end = Len(src)
        /\ \A i \in 0 .. Len(src) - 1 :
            \E k \in 1 .. Len(emitted) :
                emitted[k].start <= i /\ i < emitted[k].end
C4_Witness ==
    /\ NextOnly /\ status = "live"
    /\ elements = <<>>
    /\ Len(src) >= 5
    /\ Len(emitted) >= 2
    /\ Width(emitted[Len(emitted)]) < size
    /\ step < size

\* C5: nth(n) on a fresh generator with n < len() returns the (n+1)-th
\* window that pulling an identical fresh generator with next returns,
\* also when that window is the final, shorter one.
C5_NthIsPulledWindow ==
    [][(status = "live" /\ phase = "fresh" /\ ret'.op = "nth"
            /\ ret'.arg < len(self))
        => /\ status' = "live"
           /\ ret'.opt = Pull(self)[ret'.arg + 1]]_vars

\* C6: last() on a fresh generator over a non-empty source returns the
\* final window that pulling an identical fresh generator with next returns.
C6_LastIsFinalPulled ==
    (Built /\ phase = "fresh" /\ ret.op = "last" /\ src # <<>>) =>
        /\ status = "live"
        /\ Pull(Fresh) # <<>>
        /\ ret.opt = Pull(Fresh)[Len(Pull(Fresh))]
C6_Witness ==
    /\ status = "live" /\ phase = "fresh" /\ ret.op = "last"
    /\ ret.opt.some
    /\ ret.opt.start > 0
    /\ Width(ret.opt) < size

\* C7: while the remaining view is empty, every call returns normally,
\* next, nth and last return None, len returns 0, and the view stays empty.
C7_ExhaustionIsPermanent ==
    [][(status = "live" /\ elements = <<>>)
        => /\ status' = "live"
           /\ elements' = <<>>
           /\ ~ret'.opt.some
           /\ ret'.num = 0
           /\ emitted' = emitted]_vars

\* C8: on a non-empty view, nth(n) with n >= len() returns None and empties
\* the view, so that the following next returns None.
C8_NthOutOfRange ==
    [][(status = "live" /\ elements # <<>> /\ ret'.op = "nth"
            /\ ret'.arg >= len(self))
        => /\ status' = "live"
           /\ ~ret'.opt.some
           /\ elements' = <<>>
           /\ ~next(self').opt.some]_vars

\* C9: Windows::new panics exactly when size = 0, step = 0 or step > size;
\* otherwise the generator's view is the whole collection and start is 0.
C9_NewPreconditions ==
    ret.op = "new" =>
        /\ status \in {"live", "panicked"}
        /\ status = "panicked"
            <=> (req.size = 0 \/ req.step = 0 \/ req.step > req.size)
        /\ status = "live" =>
            /\ elements = src
            /\ start = 0
            /\ size = req.size
            /\ step = req.step
C9_Witness ==
    /\ ret.op = "new"
    /\ status = "live"
    /\ src # <<>>
    /\ req.step = req.size
    /\ elements = src

\* C10: a len() call changes no field of the generator, and a len() call
\* that directly follows another returns the same value.
C10_LenReadOnly ==
    [][(status = "live" /\ ret'.op = "len")
        => /\ status' = "live"
           /\ UNCHANGED <<elements, size, step, start>>
           /\ ret'.num = len(self')
           /\ ret.op = "len" => ret'.num = ret.num]_vars
C10_Witness ==
    /\ status = "live"
    /\ ret.op = "len"
    /\ lenCalls >= 2
    /\ phase = "mixed"
    /\ ret.num >= 2

\* C11: Window.map(f) returns a window with the receiver's start and end
\* whose value is f applied to the receiver's value.
C11_MapKeepsRange ==
    wcall.op = "map" =>
        /\ ~wcall.panic
        /\ win.start = wcall.before.start
        /\ win.end = wcall.before.end
        /\ win.value = wcall.f[wcall.before.value]
C11_Witness ==
    /\ wcall.op = "map"
    /\ ~wcall.panic
    /\ win.start < win.end
    /\ win.value # wcall.before.value

\* C12: Window.flat_map(f) returns exactly the window f returns for the
\* receiver's value; the receiver's start and end are discarded.
C12_FlatMapReplacesRange ==
    wcall.op = "flat_map" =>
        /\ ~wcall.panic
        /\ win = wcall.f[wcall.before.value]
C12_Witness ==
    /\ wcall.op = "flat_map"
    /\ ~wcall.panic
    /\ win.start # wcall.before.start
    /\ win.end # wcall.before.end
    /\ win.value # wcall.before.value

C14_StartIsAbsolute ==
    status = "live" =>
        /\ elements # <<>> =>
            /\ SliceOk(src, start, Len(src))
            /\ elements = Slice(src, start, Len(src))
        /\ \A k \in 1 .. Len(emitted) :
            /\ SliceOk(src, emitted[k].start, emitted[k].end)
            /\ emitted[k].value = Slice(src, emitted[k].start, emitted[k].end)

\* C15: once a generator is built, no sequence of next, nth, last and len
\* calls panics: every slice is in bounds, no subtraction underflows and
\* Window::new's assertion holds.
C15_NoPanicAfterNew ==
    Built => status = "live"

\* C16: next on a view of length 0 < m <= size returns the single window
\* (start, start + m, the whole view) and empties the view whatever step
\* is, so that the following next returns None.
C16_FinalWindowExhausts ==
    [][(status = "live" /\ elements # <<>> /\ Len(elements) <= size
            /\ ret'.op = "next")
        => /\ status' = "live"
           /\ ret'.opt = Some(Window(start, start + Len(elements), elements))
           /\ emitted' = Append(emitted, ret'.opt)
           /\ elements' = <<>>
           /\ ~next(self').opt.some]_vars
C16_Witness ==
    /\ status = "live"
    /\ ret.op = "next"
    /\ Len(emitted) = 1
    /\ emitted[1] = Some(Window(0, Len(src), src))
    /\ Len(src) < size
    /\ step < Len(src)
    /\ elements = <<>>

\* C17: on a non-empty view of length m, last() returns Window(s, m,
\* view[s..]) with s = (len() - 1) * step, the payload holds between 1 and
\* size elements, and the view and start are unchanged.
C17_LastOfView ==
    [][(status = "live" /\ elements # <<>> /\ ret'.op = "last")
        => /\ status' = "live"
           /\ ret'.opt = Some(Window((len(self) - 1) * step, Len(elements),
                                     Slice(elements, (len(self) - 1) * step,
                                           Len(elements))))
           /\ SliceOk(elements, (len(self) - 1) * step, Len(elements))
           /\ 1 <= Len(ret'.opt.value)
           /\ Len(ret'.opt.value) <= size
           /\ UNCHANGED <<elements, start, size, step>>]_vars
C17_Witness ==
    /\ status = "live"
    /\ ret.op = "last"
    /\ phase = "mixed"
    /\ ret.opt.some
    /\ ret.opt.start > 0
    /\ Len(ret.opt.value) < size
    /\ Len(elements) > size

\* C18: across next and nth calls the remaining view is a suffix of the
\* original collection, its length never grows, every call that returns a
\* window makes it strictly shorter, and so at most L windows are returned.
IsSuffix(v, e) ==
    Len(v) <= Len(e) /\ v = Slice(e, Len(e) - Len(v), Len(e))
C18_ViewShrinks ==
    [][status = "live"
        => /\ IsSuffix(elements, src)
           /\ IsSuffix(elements', src)
           /\ Len(elements') <= Len(elements)
           /\ Len(emitted') > Len(emitted) => Len(elements') < Len(elements)
           /\ Len(emitted') <= Len(src)]_vars
C18_Witness ==
    /\ status = "live"
    /\ phase = "mixed"
    /\ seek = -2
    /\ Len(emitted) >= 3
    /\ elements # <<>>
    /\ Len(elements) < Len(src)

\* C19: when n * step overflows usize, nth(n) returns None and empties the
\* view; it never returns the window at the wrapped-around position.
\* Stated for a non-empty view: nth on an empty view is the case of C7.
C19_OverflowIsOutOfRange ==
    [][(status = "live" /\ elements # <<>> /\ ret'.op = "nth"
            /\ Ovf(ret'.arg * step))
        => /\ status' = "live"
           /\ ~ret'.opt.some
           /\ elements' = <<>>]_vars
====
